---- MODULE Spec2Model ----
(***************************************************************************)
(* Model of the launchbyte-api backend (FastAPI + SQLAlchemy).             *)
(*                                                                         *)
(* Several parts of the repository are modelled, each with its own         *)
(* specification over the shared variables:                                *)
(*   SpecMigr  - migrate.py (DatabaseMigrator) and database.run_migrations *)
(*   SpecSlug  - routes.generate_slug / create_design and utils.slugify    *)
(*   SpecAuth  - auth.py (tokens, blacklist, users), the auth routes of    *)
(*               routes.py and the exception handlers of main.py           *)
(*   SpecAdmin - auth.deactivate_user / make_admin / remove_admin, one     *)
(*               call at a time                                            *)
(*   SpecAdminConc - the same calls in concurrent database sessions        *)
(*   SpecLimit - the middleware stack of main.py with RateLimitMiddleware  *)
(* A specification leaves the variables of the other parts unchanged.      *)
(***************************************************************************)
EXTENDS Integers, Sequences, FiniteSets, TLC

(***************************************************************************)
(* Part 1: migrations (src/migrate.py, src/database.py)                    *)
(*                                                                         *)
(* The database is a set of object names: a table "t", a column "t.c", an  *)
(* index "t#i", a seeded row "t:key" and a server variable "@@v".  The     *)
(* SQLAlchemy inspector is read live (no reflection cache is modelled).    *)
(* A statement fails "for another reason" when one of its objects is in    *)
(* the set `failing` chosen for the run.  Writing schema_migrations itself *)
(* only fails when the table is missing.                                   *)
(***************************************************************************)

\* Bounds of the migration part.
MaxRuns == 2

NoTarget == 0
NoRec == [success |-> FALSE, executed_at |-> 0, recorded |-> FALSE]
NoMigrator == [constructed |-> FALSE, dry_run |-> FALSE]

\* get_migration_definitions and the migration_NNN_* methods, as data:
\* guard "need"/"absent": the method returns True at once when gtable is
\* missing/present; check: an existing object counts as done without a
\* statement; skip: the statement is passed over when its table is missing;
\* ret: how the method computes its result from the statement results.
MigrationDefs ==
  <<
  [version |-> 1, name |-> "add_show_live_demo_to_designs", guard |-> "need", gtable |-> "designs",
   check |-> TRUE, ret |-> "all", via |-> "execute_sql",
   stmts |-> << [objs |-> {"designs.show_live_demo"}, tbl |-> "designs", skip |-> FALSE] >>],
  [version |-> 2, name |-> "add_design_enhancement_fields", guard |-> "need", gtable |-> "designs",
   check |-> TRUE, ret |-> "all", via |-> "execute_sql",
   stmts |-> << [objs |-> {"designs.slug"}, tbl |-> "designs", skip |-> FALSE],
                [objs |-> {"designs.is_published"}, tbl |-> "designs", skip |-> FALSE],
                [objs |-> {"designs.is_featured"}, tbl |-> "designs", skip |-> FALSE],
                [objs |-> {"designs.sort_order"}, tbl |-> "designs", skip |-> FALSE],
                [objs |-> {"designs.views_count"}, tbl |-> "designs", skip |-> FALSE] >>],
  [version |-> 3, name |-> "add_package_enhancement_fields", guard |-> "need", gtable |-> "packages",
   check |-> TRUE, ret |-> "all", via |-> "execute_sql",
   stmts |-> << [objs |-> {"packages.slug"}, tbl |-> "packages", skip |-> FALSE],
                [objs |-> {"packages.is_active"}, tbl |-> "packages", skip |-> FALSE],
                [objs |-> {"packages.sort_order"}, tbl |-> "packages", skip |-> FALSE] >>],
  [version |-> 4, name |-> "add_review_enhancement_fields", guard |-> "need", gtable |-> "reviews",
   check |-> TRUE, ret |-> "all", via |-> "execute_sql",
   stmts |-> << [objs |-> {"reviews.is_featured"}, tbl |-> "reviews", skip |-> FALSE],
                [objs |-> {"reviews.sort_order"}, tbl |-> "reviews", skip |-> FALSE],
                [objs |-> {"reviews.approved_at"}, tbl |-> "reviews", skip |-> FALSE] >>],
  [version |-> 5, name |-> "add_faq_enhancement_fields", guard |-> "need", gtable |-> "faq",
   check |-> TRUE, ret |-> "all", via |-> "execute_sql",
   stmts |-> << [objs |-> {"faq.is_active"}, tbl |-> "faq", skip |-> FALSE] >>],
  [version |-> 6, name |-> "add_content_enhancement_fields", guard |-> "need", gtable |-> "content",
   check |-> TRUE, ret |-> "all", via |-> "execute_sql",
   stmts |-> << [objs |-> {"content.description"}, tbl |-> "content", skip |-> FALSE],
                [objs |-> {"content.is_active"}, tbl |-> "content", skip |-> FALSE] >>],
  [version |-> 7, name |-> "add_contact_info_working_hours", guard |-> "need", gtable |-> "contact_info",
   check |-> TRUE, ret |-> "all", via |-> "execute_sql",
   stmts |-> << [objs |-> {"contact_info.working_hours_uk"}, tbl |-> "contact_info", skip |-> FALSE],
                [objs |-> {"contact_info.working_hours_en"}, tbl |-> "contact_info", skip |-> FALSE] >>],
  [version |-> 8, name |-> "enhance_uploaded_files_table", guard |-> "need", gtable |-> "uploaded_files",
   check |-> TRUE, ret |-> "all", via |-> "execute_sql",
   stmts |-> << [objs |-> {"uploaded_files.thumbnail_url"}, tbl |-> "uploaded_files", skip |-> FALSE],
                [objs |-> {"uploaded_files.category"}, tbl |-> "uploaded_files", skip |-> FALSE],
                [objs |-> {"uploaded_files.hash"}, tbl |-> "uploaded_files", skip |-> FALSE],
                [objs |-> {"uploaded_files.alt_text"}, tbl |-> "uploaded_files", skip |-> FALSE],
                [objs |-> {"uploaded_files.is_used"}, tbl |-> "uploaded_files", skip |-> FALSE] >>],
  [version |-> 9, name |-> "enhance_policies_table", guard |-> "need", gtable |-> "policies",
   check |-> TRUE, ret |-> "all", via |-> "execute_sql",
   stmts |-> << [objs |-> {"policies.is_active"}, tbl |-> "policies", skip |-> FALSE],
                [objs |-> {"policies.version"}, tbl |-> "policies", skip |-> FALSE] >>],
  [version |-> 10, name |-> "add_structured_data_to_seo", guard |-> "need", gtable |-> "seo_settings",
   check |-> TRUE, ret |-> "all", via |-> "execute_sql",
   stmts |-> << [objs |-> {"seo_settings.structured_data"}, tbl |-> "seo_settings", skip |-> FALSE] >>],
  [version |-> 11, name |-> "add_quote_application_fields", guard |-> "need", gtable |-> "quote_applications",
   check |-> TRUE, ret |-> "all", via |-> "execute_sql",
   stmts |-> << [objs |-> {"quote_applications.response_text"}, tbl |-> "quote_applications", skip |-> FALSE],
                [objs |-> {"quote_applications.processed_at"}, tbl |-> "quote_applications", skip |-> FALSE] >>],
  [version |-> 12, name |-> "add_consultation_application_fields", guard |-> "need", gtable |-> "consultation_applications",
   check |-> TRUE, ret |-> "all", via |-> "execute_sql",
   stmts |-> << [objs |-> {"consultation_applications.consultation_scheduled_at"}, tbl |-> "consultation_applications", skip |-> FALSE],
                [objs |-> {"consultation_applications.consultation_completed_at"}, tbl |-> "consultation_applications", skip |-> FALSE],
                [objs |-> {"consultation_applications.notes"}, tbl |-> "consultation_applications", skip |-> FALSE] >>],
  [version |-> 13, name |-> "create_performance_indexes", guard |-> "none", gtable |-> "",
   check |-> TRUE, ret |-> "any", via |-> "execute_sql",
   stmts |-> << [objs |-> {"designs#idx_designs_category_published"}, tbl |-> "designs", skip |-> TRUE],
                [objs |-> {"designs#idx_designs_featured"}, tbl |-> "designs", skip |-> TRUE],
                [objs |-> {"designs#idx_designs_published_sort"}, tbl |-> "designs", skip |-> TRUE],
                [objs |-> {"reviews#idx_reviews_approved"}, tbl |-> "reviews", skip |-> TRUE],
                [objs |-> {"reviews#idx_reviews_featured"}, tbl |-> "reviews", skip |-> TRUE],
                [objs |-> {"reviews#idx_reviews_approved_featured"}, tbl |-> "reviews", skip |-> TRUE],
                [objs |-> {"quote_applications#idx_quote_apps_status"}, tbl |-> "quote_applications", skip |-> TRUE],
                [objs |-> {"quote_applications#idx_quote_apps_created"}, tbl |-> "quote_applications", skip |-> TRUE],
                [objs |-> {"consultation_applications#idx_consultation_apps_status"}, tbl |-> "consultation_applications", skip |-> TRUE],
                [objs |-> {"consultation_applications#idx_consultation_apps_created"}, tbl |-> "consultation_applications", skip |-> TRUE],
                [objs |-> {"uploaded_files#idx_uploaded_files_category"}, tbl |-> "uploaded_files", skip |-> TRUE],
                [objs |-> {"uploaded_files#idx_uploaded_files_hash"}, tbl |-> "uploaded_files", skip |-> TRUE],
                [objs |-> {"content#idx_content_key"}, tbl |-> "content", skip |-> TRUE],
                [objs |-> {"content#idx_content_active"}, tbl |-> "content", skip |-> TRUE],
                [objs |-> {"faq#idx_faq_order"}, tbl |-> "faq", skip |-> TRUE] >>],
  [version |-> 14, name |-> "create_site_settings_table", guard |-> "absent", gtable |-> "site_settings",
   check |-> FALSE, ret |-> "all", via |-> "execute_sql",
   stmts |-> << [objs |-> {"site_settings"}, tbl |-> "", skip |-> FALSE] >>],
  [version |-> 15, name |-> "create_email_tables", guard |-> "none", gtable |-> "",
   check |-> TRUE, ret |-> "all", via |-> "execute_sql",
   stmts |-> << [objs |-> {"email_templates"}, tbl |-> "", skip |-> FALSE],
                [objs |-> {"email_logs"}, tbl |-> "", skip |-> FALSE] >>],
  [version |-> 16, name |-> "create_site_stats_table", guard |-> "absent", gtable |-> "site_stats",
   check |-> FALSE, ret |-> "all", via |-> "execute_sql",
   stmts |-> << [objs |-> {"site_stats"}, tbl |-> "", skip |-> FALSE] >>],
  [version |-> 17, name |-> "add_category_active_field", guard |-> "need", gtable |-> "design_categories",
   check |-> TRUE, ret |-> "all", via |-> "execute_sql",
   stmts |-> << [objs |-> {"design_categories.is_active"}, tbl |-> "design_categories", skip |-> FALSE] >>],
  [version |-> 18, name |-> "optimize_database_settings", guard |-> "none", gtable |-> "",
   check |-> FALSE, ret |-> "any", via |-> "direct",
   stmts |-> << [objs |-> {"@@innodb_buffer_pool_size"}, tbl |-> "", skip |-> FALSE],
                [objs |-> {"@@query_cache_size"}, tbl |-> "", skip |-> FALSE],
                [objs |-> {"@@max_connections"}, tbl |-> "", skip |-> FALSE] >>],
  [version |-> 19, name |-> "create_about_content_table", guard |-> "absent", gtable |-> "about_content",
   check |-> FALSE, ret |-> "all", via |-> "execute_sql",
   stmts |-> << [objs |-> {"about_content"}, tbl |-> "", skip |-> FALSE] >>],
  [version |-> 20, name |-> "create_team_members_table", guard |-> "absent", gtable |-> "team_members",
   check |-> FALSE, ret |-> "all", via |-> "execute_sql",
   stmts |-> << [objs |-> {"team_members"}, tbl |-> "", skip |-> FALSE] >>],
  [version |-> 21, name |-> "add_user_password_fields", guard |-> "need", gtable |-> "users",
   check |-> TRUE, ret |-> "all", via |-> "execute_sql",
   stmts |-> << [objs |-> {"users.password_changed_at"}, tbl |-> "users", skip |-> FALSE],
                [objs |-> {"users.last_login"}, tbl |-> "users", skip |-> FALSE] >>],
  [version |-> 22, name |-> "enhance_email_logs_table", guard |-> "need", gtable |-> "email_logs",
   check |-> TRUE, ret |-> "all", via |-> "execute_sql",
   stmts |-> << [objs |-> {"email_logs.ip_address"}, tbl |-> "email_logs", skip |-> FALSE],
                [objs |-> {"email_logs.user_agent"}, tbl |-> "email_logs", skip |-> FALSE],
                [objs |-> {"email_logs.priority"}, tbl |-> "email_logs", skip |-> FALSE],
                [objs |-> {"email_logs.retry_count"}, tbl |-> "email_logs", skip |-> FALSE],
                [objs |-> {"email_logs.last_retry_at"}, tbl |-> "email_logs", skip |-> FALSE] >>],
  [version |-> 23, name |-> "add_avatar_fields_to_team", guard |-> "need", gtable |-> "team_members",
   check |-> TRUE, ret |-> "all", via |-> "execute_sql",
   stmts |-> << [objs |-> {"team_members.avatar_thumbnail"}, tbl |-> "team_members", skip |-> FALSE],
                [objs |-> {"team_members.avatar_original"}, tbl |-> "team_members", skip |-> FALSE],
                [objs |-> {"team_members.avatar_color"}, tbl |-> "team_members", skip |-> FALSE],
                [objs |-> {"team_members.display_avatar"}, tbl |-> "team_members", skip |-> FALSE] >>],
  [version |-> 24, name |-> "create_admin_activity_log", guard |-> "absent", gtable |-> "admin_activity_log",
   check |-> FALSE, ret |-> "all", via |-> "execute_sql",
   stmts |-> << [objs |-> {"admin_activity_log"}, tbl |-> "", skip |-> FALSE] >>],
  [version |-> 25, name |-> "add_seo_fields_to_about", guard |-> "need", gtable |-> "about_content",
   check |-> TRUE, ret |-> "all", via |-> "execute_sql",
   stmts |-> << [objs |-> {"about_content.meta_title_uk"}, tbl |-> "about_content", skip |-> FALSE],
                [objs |-> {"about_content.meta_title_en"}, tbl |-> "about_content", skip |-> FALSE],
                [objs |-> {"about_content.meta_description_uk"}, tbl |-> "about_content", skip |-> FALSE],
                [objs |-> {"about_content.meta_description_en"}, tbl |-> "about_content", skip |-> FALSE],
                [objs |-> {"about_content.og_image"}, tbl |-> "about_content", skip |-> FALSE] >>],
  [version |-> 26, name |-> "optimize_team_indexes", guard |-> "need", gtable |-> "team_members",
   check |-> TRUE, ret |-> "any", via |-> "execute_sql",
   stmts |-> << [objs |-> {"team_members#idx_team_name"}, tbl |-> "team_members", skip |-> FALSE],
                [objs |-> {"team_members#idx_team_skills"}, tbl |-> "team_members", skip |-> FALSE],
                [objs |-> {"team_members#idx_team_created"}, tbl |-> "team_members", skip |-> FALSE],
                [objs |-> {"team_members#idx_team_updated"}, tbl |-> "team_members", skip |-> FALSE] >>],
  [version |-> 27, name |-> "add_backup_settings", guard |-> "need", gtable |-> "site_settings",
   check |-> FALSE, ret |-> "true", via |-> "execute_sql",
   stmts |-> << [objs |-> {"site_settings:auto_backup_enabled"}, tbl |-> "site_settings", skip |-> FALSE],
                [objs |-> {"site_settings:backup_frequency"}, tbl |-> "site_settings", skip |-> FALSE],
                [objs |-> {"site_settings:backup_retention_days"}, tbl |-> "site_settings", skip |-> FALSE],
                [objs |-> {"site_settings:backup_path"}, tbl |-> "site_settings", skip |-> FALSE],
                [objs |-> {"site_settings:last_backup_at"}, tbl |-> "site_settings", skip |-> FALSE] >>],
  [version |-> 28, name |-> "enhance_security_logging", guard |-> "absent", gtable |-> "security_events",
   check |-> FALSE, ret |-> "all", via |-> "execute_sql",
   stmts |-> << [objs |-> {"security_events"}, tbl |-> "", skip |-> FALSE] >>],
  [version |-> 29, name |-> "create_file_categories_table", guard |-> "absent", gtable |-> "file_categories",
   check |-> FALSE, ret |-> "first", via |-> "execute_sql",
   stmts |-> << [objs |-> {"file_categories"}, tbl |-> "", skip |-> FALSE],
                [objs |-> {"file_categories:images"}, tbl |-> "file_categories", skip |-> FALSE],
                [objs |-> {"file_categories:documents"}, tbl |-> "file_categories", skip |-> FALSE],
                [objs |-> {"file_categories:media"}, tbl |-> "file_categories", skip |-> FALSE],
                [objs |-> {"file_categories:other"}, tbl |-> "file_categories", skip |-> FALSE] >>],
  [version |-> 30, name |-> "add_multilingual_support", guard |-> "need", gtable |-> "site_settings",
   check |-> FALSE, ret |-> "true", via |-> "execute_sql",
   stmts |-> << [objs |-> {"site_settings:default_language"}, tbl |-> "site_settings", skip |-> FALSE],
                [objs |-> {"site_settings:supported_languages"}, tbl |-> "site_settings", skip |-> FALSE],
                [objs |-> {"site_settings:auto_detect_language"}, tbl |-> "site_settings", skip |-> FALSE],
                [objs |-> {"site_settings:fallback_language"}, tbl |-> "site_settings", skip |-> FALSE] >>]
  >>

\* The statements of database.run_migrations, in source order.
DbMigrationStatements ==
  << [objs |-> {"users.password_changed_at"}, tbl |-> "users", skip |-> FALSE],
     [objs |-> {"users.last_login"}, tbl |-> "users", skip |-> FALSE],
     [objs |-> {"about_content"}, tbl |-> "", skip |-> FALSE],
     [objs |-> {"team_members"}, tbl |-> "", skip |-> FALSE],
     [objs |-> {"designs.show_live_demo"}, tbl |-> "designs", skip |-> FALSE],
     [objs |-> {"designs.slug"}, tbl |-> "designs", skip |-> FALSE],
     [objs |-> {"designs.is_published"}, tbl |-> "designs", skip |-> FALSE],
     [objs |-> {"designs.is_featured"}, tbl |-> "designs", skip |-> FALSE],
     [objs |-> {"designs.sort_order"}, tbl |-> "designs", skip |-> FALSE],
     [objs |-> {"designs.views_count"}, tbl |-> "designs", skip |-> FALSE],
     [objs |-> {"packages.slug"}, tbl |-> "packages", skip |-> FALSE],
     [objs |-> {"packages.is_active"}, tbl |-> "packages", skip |-> FALSE],
     [objs |-> {"packages.sort_order"}, tbl |-> "packages", skip |-> FALSE],
     [objs |-> {"reviews.is_featured"}, tbl |-> "reviews", skip |-> FALSE],
     [objs |-> {"reviews.sort_order"}, tbl |-> "reviews", skip |-> FALSE],
     [objs |-> {"reviews.approved_at"}, tbl |-> "reviews", skip |-> FALSE],
     [objs |-> {"faq.is_active"}, tbl |-> "faq", skip |-> FALSE],
     [objs |-> {"content.description"}, tbl |-> "content", skip |-> FALSE],
     [objs |-> {"content.is_active"}, tbl |-> "content", skip |-> FALSE],
     [objs |-> {"contact_info.working_hours_uk", "contact_info.working_hours_en"}, tbl |-> "contact_info", skip |-> FALSE],
     [objs |-> {"uploaded_files.thumbnail_url"}, tbl |-> "uploaded_files", skip |-> FALSE],
     [objs |-> {"uploaded_files.category"}, tbl |-> "uploaded_files", skip |-> FALSE],
     [objs |-> {"uploaded_files.hash"}, tbl |-> "uploaded_files", skip |-> FALSE],
     [objs |-> {"uploaded_files.alt_text"}, tbl |-> "uploaded_files", skip |-> FALSE],
     [objs |-> {"uploaded_files.is_used"}, tbl |-> "uploaded_files", skip |-> FALSE],
     [objs |-> {"policies.is_active"}, tbl |-> "policies", skip |-> FALSE],
     [objs |-> {"policies.version"}, tbl |-> "policies", skip |-> FALSE],
     [objs |-> {"seo_settings.structured_data"}, tbl |-> "seo_settings", skip |-> FALSE],
     [objs |-> {"quote_applications.response_text"}, tbl |-> "quote_applications", skip |-> FALSE],
     [objs |-> {"quote_applications.processed_at"}, tbl |-> "quote_applications", skip |-> FALSE],
     [objs |-> {"consultation_applications.consultation_scheduled_at"}, tbl |-> "consultation_applications", skip |-> FALSE],
     [objs |-> {"consultation_applications.consultation_completed_at"}, tbl |-> "consultation_applications", skip |-> FALSE],
     [objs |-> {"consultation_applications.notes"}, tbl |-> "consultation_applications", skip |-> FALSE],
     [objs |-> {"designs#idx_designs_category_published"}, tbl |-> "designs", skip |-> FALSE],
     [objs |-> {"designs#idx_designs_featured"}, tbl |-> "designs", skip |-> FALSE],
     [objs |-> {"reviews#idx_reviews_approved"}, tbl |-> "reviews", skip |-> FALSE],
     [objs |-> {"reviews#idx_reviews_featured"}, tbl |-> "reviews", skip |-> FALSE],
     [objs |-> {"quote_applications#idx_quote_apps_status"}, tbl |-> "quote_applications", skip |-> FALSE],
     [objs |-> {"consultation_applications#idx_consultation_apps_status"}, tbl |-> "consultation_applications", skip |-> FALSE],
     [objs |-> {"uploaded_files#idx_uploaded_files_category"}, tbl |-> "uploaded_files", skip |-> FALSE],
     [objs |-> {"uploaded_files#idx_uploaded_files_hash"}, tbl |-> "uploaded_files", skip |-> FALSE] >>

\* Legacy tables created by the ORM before any migration ran.
LegacyTables ==
  {"users", "designs", "design_categories", "packages", "reviews", "faq",
   "content", "contact_info", "uploaded_files", "policies", "seo_settings",
   "quote_applications", "consultation_applications"}

\* Databases the migrator may be started on.
InitSchemas == { {}, LegacyTables, {"users", "designs"} }

\* Sets of objects whose statement fails for a reason other than "exists".
FailSets ==
  { {}, {"designs.show_live_demo"}, {"designs.slug"}, {"site_settings"},
    {"@@innodb_buffer_pool_size", "@@query_cache_size", "@@max_connections"},
    {"@@query_cache_size"} }

\* --target values tried (NoTarget: the option is absent).
Targets == {NoTarget, 1, 14}

Versions == {MigrationDefs[i].version : i \in 1..Len(MigrationDefs)}

table_exists(db, table_name) == table_name \in db

\* column_exists / index_exists / table_exists on the object a statement adds
object_exists(db, s) == s.objs \subseteq db

\* What the database server answers to one DDL/DML statement.
DbExecute(db, s, failing) ==
  IF s.objs \cap db # {}
    THEN [err |-> "duplicate", db |-> db]
    ELSE IF s.tbl # "" /\ s.tbl \notin db
      THEN [err |-> "other", db |-> db]
      ELSE IF s.objs \cap failing # {}
        THEN [err |-> "other", db |-> db]
        ELSE [err |-> "none", db |-> db \cup s.objs]

execute_sql(db, s, dry, failing) ==
  IF dry
    THEN [ok |-> TRUE, db |-> db]
    ELSE LET r == DbExecute(db, s, failing)
         IN  [ok |-> r.err \in {"none", "duplicate"}, db |-> r.db]

\* The connection.execute loop of migration_018: its own dry_run test, and
\* any exception leaves the statement uncounted.
direct_execute(db, s, dry, failing) ==
  IF dry
    THEN [ok |-> TRUE, db |-> db]
    ELSE LET r == DbExecute(db, s, failing)
         IN  [ok |-> r.err # "other", db |-> r.db]

RECURSIVE RunStmts(_, _, _, _, _)
RunStmts(m, i, st, dry, failing) ==
  IF i > Len(m.stmts) THEN st
  ELSE
    LET s == m.stmts[i] IN
    IF s.skip /\ ~table_exists(st.db, s.tbl)
      THEN RunStmts(m, i + 1, st, dry, failing)
    ELSE IF m.check /\ object_exists(st.db, s)
      THEN RunStmts(m, i + 1, [st EXCEPT !.count = @ + 1], dry, failing)
    ELSE IF m.ret = "first" /\ i > 1 /\ ~st.first
      THEN RunStmts(m, i + 1, st, dry, failing)
    ELSE
      LET r == IF m.via = "direct" THEN direct_execute(st.db, s, dry, failing)
                                   ELSE execute_sql(st.db, s, dry, failing)
      IN  RunStmts(m, i + 1,
                   [db     |-> r.db,
                    count  |-> IF r.ok THEN st.count + 1 ELSE st.count,
                    first  |-> IF i = 1 THEN r.ok ELSE st.first,
                    errors |-> IF r.ok THEN st.errors ELSE st.errors + 1],
                   dry, failing)

\* One migration_NNN_* method: [ok, db], and the number of its statements
\* that failed for a reason other than "already exists".
MigrationBody(m, db, dry, failing) ==
  IF m.guard = "need" /\ ~table_exists(db, m.gtable)
    THEN [ok |-> TRUE, db |-> db, errors |-> 0]
  ELSE IF m.guard = "absent" /\ table_exists(db, m.gtable)
    THEN [ok |-> TRUE, db |-> db, errors |-> 0]
  ELSE
    LET r == RunStmts(m, 1, [db |-> db, count |-> 0, first |-> FALSE, errors |-> 0],
                      dry, failing)
    IN  [ok |-> CASE m.ret = "all"   -> r.count = Len(m.stmts)
                  [] m.ret = "any"   -> r.count > 0
                  [] m.ret = "true"  -> TRUE
                  [] m.ret = "first" -> r.first,
         db |-> r.db, errors |-> r.errors]

get_executed_migrations_Inverted(db, recs) ==
  IF ~table_exists(db, "schema_migrations") THEN {}
  ELSE {v \in Versions : recs[v].recorded /\ ~recs[v].success}

get_executed_migrations(db, recs) ==
  IF ~table_exists(db, "schema_migrations") THEN {}
  ELSE {v \in Versions : recs[v].recorded /\ recs[v].success}

record_migration(db, recs, v, ok, now) ==
  IF ~table_exists(db, "schema_migrations") THEN recs
  ELSE [recs EXCEPT ![v] = [success |-> ok, executed_at |-> now, recorded |-> TRUE]]

\* run_migration after the migration method returned r = [ok, db]: the outcome
\* is recorded unless dry.  st = [db, recs, log, failed]; the log keeps, for
\* every migration method invoked, what was recorded as executed at that moment.
RecordOutcome(v, st, r, dry, now) ==
  [db     |-> r.db,
   recs   |-> IF dry THEN st.recs ELSE record_migration(r.db, st.recs, v, r.ok, now),
   log    |-> Append(st.log, [version |-> v, dry |-> dry, ok |-> r.ok,
                              errors |-> r.errors,
                              prior |-> get_executed_migrations(st.db, st.recs)]),
   failed |-> IF r.ok THEN st.failed ELSE Append(st.failed, v)]

run_migration(v, st, dry, failing, now) ==
  RecordOutcome(v, st, MigrationBody(MigrationDefs[v], st.db, dry, failing), dry, now)

RECURSIVE PendingFrom(_, _, _)
PendingFrom(i, executed, target) ==
  IF i > Len(MigrationDefs) THEN << >>
  ELSE
    LET v == MigrationDefs[i].version IN
    IF v \notin executed
      THEN IF target # NoTarget /\ v = target
             THEN << v >>
             ELSE << v >> \o PendingFrom(i + 1, executed, target)
      ELSE PendingFrom(i + 1, executed, target)

RECURSIVE RunPending(_, _, _, _, _, _)

\* A loop that goes on after a failed migration.
AfterMigration_NoStop(pending, i, r, dry, failing, now) ==
  IF Len(r.log) > Len(pending) THEN r
  ELSE RunPending(pending, i + 1, r, dry, failing, now)

\* The end of one round of the loop: break at the first failure.
AfterMigration(pending, i, r, dry, failing, now) ==
  IF r.failed # << >> THEN r
  ELSE RunPending(pending, i + 1, r, dry, failing, now)

\* The loop of run_all_migrations over the pending migrations.
RunPending(pending, i, st, dry, failing, now) ==
  IF i > Len(pending) THEN st
  ELSE AfterMigration(pending, i, run_migration(pending[i], st, dry, failing, now),
                      dry, failing, now)

\* What run_all_migrations returns and leaves behind.
RunResult(st) ==
  [ret |-> st.failed = << >>, db |-> st.db, recs |-> st.recs, log |-> st.log]

run_all_migrations(db, recs, dry, target, failing, now) ==
  RunResult(RunPending(PendingFrom(1, get_executed_migrations(db, recs), target), 1,
                       [db |-> db, recs |-> recs, log |-> << >>, failed |-> << >>],
                       dry, failing, now))

RECURSIVE DbRunStatements(_, _, _)
DbRunStatements(i, db, failing) ==
  IF i > Len(DbMigrationStatements) THEN db
  ELSE DbRunStatements(i + 1, DbExecute(db, DbMigrationStatements[i], failing).db, failing)

(***************************************************************************)
(* Slugs: utils.slugify, routes.generate_slug, routes.create_design        *)
(*                                                                         *)
(* A string is a sequence of characters; a character is a one-element      *)
(* string.  Cyrillic letters are written by their code point: "u041b" is   *)
(* CYRILLIC CAPITAL LETTER EL, "u043b" the small one, and so on.           *)
(***************************************************************************)

\* The longest tail appended to a title stem.
MaxTailLen == 2
\* How many designs are ever created.
MaxDesigns == 3

\* schemas.DesignBase.title: Field(min_length=5, ...).
TitleMinLen == 5
\* utils.slugify: if len(text) > 50: text = text[:50].rstrip('-').
SlugMaxLen == 50

TitleStems ==
  { << "L", "o", "g", "o" >>,
    << "u041b", "u043e", "u0433", "u043e" >>,
    << "L", "o", "g", "o", " ", "1" >>,
    << "!", "!", "!", "!" >> }

TailChars == { " ", "-", "!" }

Tails == UNION { [1..n -> TailChars] : n \in 0..MaxTailLen }

Titles == { stem \o tail : stem \in TitleStems, tail \in Tails }

\* The rows of design_categories (seeded) and the category ids a request names.
DesignCategories == { "corporate" }
CategoryIds == { "corporate", "missing" }

\* str.lower on one character.
lower(c) ==
  CASE c = "L"     -> "l"
    [] c = "u041b" -> "u043b"
    [] OTHER       -> c

\* The entries of cyrillic_translit that the titles can meet.
cyrillic_translit(c) ==
  CASE c = "u0433" -> << "g" >>
    [] c = "u043b" -> << "l" >>
    [] c = "u043e" -> << "o" >>
    [] OTHER       -> << c >>

\* \w of the re module: letters, digits and the underscore.
IsWordChar(c) == c \in { "l", "o", "g", "L", "1", "_", "i", "t", "e", "m",
                         "u041b", "u043b", "u043e", "u0433" }
\* \s of the re module.
IsSpace(c) == c = " "

RECURSIVE LowerText(_, _)
LowerText(text, i) ==
  IF i > Len(text) THEN << >>
  ELSE << lower(text[i]) >> \o LowerText(text, i + 1)

RECURSIVE lstrip(_, _)
lstrip(text, chars) ==
  IF text # << >> /\ Head(text) \in chars THEN lstrip(Tail(text), chars) ELSE text

RECURSIVE rstrip(_, _)
rstrip(text, chars) ==
  IF text # << >> /\ text[Len(text)] \in chars
    THEN rstrip(SubSeq(text, 1, Len(text) - 1), chars)
    ELSE text

strip(text, chars) == rstrip(lstrip(text, chars), chars)

RECURSIVE Transliterate(_, _)
Transliterate(text, i) ==
  IF i > Len(text) THEN << >>
  ELSE cyrillic_translit(text[i]) \o Transliterate(text, i + 1)

\* re.sub(r'[^\w\s-]', '', text)
RemoveSpecial(text) ==
  SelectSeq(text, LAMBDA c : IsWordChar(c) \/ IsSpace(c) \/ c = "-")

\* re.sub(r'[-\s]+', '-', text)
RECURSIVE CollapseSeparators(_, _)
CollapseSeparators(text, i) ==
  IF i > Len(text) THEN << >>
  ELSE
    LET sep(c) == IsSpace(c) \/ c = "-" IN
    IF sep(text[i])
      THEN IF i > 1 /\ sep(text[i - 1])
             THEN CollapseSeparators(text, i + 1)
             ELSE << "-" >> \o CollapseSeparators(text, i + 1)
      ELSE << text[i] >> \o CollapseSeparators(text, i + 1)

slugify(text) ==
  IF text = << >> THEN << >>
  ELSE
    LET lowered   == strip(LowerText(text, 1), { " " })
        latin     == Transliterate(lowered, 1)
        cleaned   == CollapseSeparators(RemoveSpecial(latin), 1)
        stripped  == strip(cleaned, { "-" })
        truncated == IF Len(stripped) > SlugMaxLen
                       THEN rstrip(SubSeq(stripped, 1, SlugMaxLen), { "-" })
                       ELSE stripped
    IN  IF truncated = << >> THEN << "i", "t", "e", "m" >> ELSE truncated

\* str(counter) for a positive counter.
Digit(d) == << "0", "1", "2", "3", "4", "5", "6", "7", "8", "9" >>[d + 1]

RECURSIVE str(_)
str(n) == IF n < 10 THEN << Digit(n) >> ELSE str(n \div 10) \o << Digit(n % 10) >>

\* f"{base_slug}-{counter}"
Suffixed(base_slug, counter) == base_slug \o << "-" >> \o str(counter)

\* The rows the query of generate_slug sees: slug == slug, id != id_to_exclude
\* when id_to_exclude is truthy.
SlugTaken(rows, slug, id_to_exclude) ==
  \E d \in rows : d.slug = slug /\ (id_to_exclude = 0 \/ d.id # id_to_exclude)

\* A generate_slug whose loop body runs once: the suffixed slug is not looked up.
generate_slug_NoRecheck(title, rows, id_to_exclude) ==
  LET base_slug == slugify(title) IN
  IF ~SlugTaken(rows, base_slug, id_to_exclude) THEN base_slug
  ELSE Suffixed(base_slug, 1)

RECURSIVE SlugLoop(_, _, _, _, _)
SlugLoop(base_slug, slug, counter, rows, id_to_exclude) ==
  IF ~SlugTaken(rows, slug, id_to_exclude) THEN slug
  ELSE SlugLoop(base_slug, Suffixed(base_slug, counter), counter + 1, rows, id_to_exclude)

generate_slug(title, rows, id_to_exclude) ==
  LET base_slug == slugify(title) IN
  SlugLoop(base_slug, base_slug, 1, rows, id_to_exclude)

(***************************************************************************)
(* Authentication: auth.py, the auth routes of routes.py, the exception    *)
(* handlers and the backup endpoint of main.py                             *)
(*                                                                         *)
(* Time is counted in days.                                                *)
(***************************************************************************)

\* The clock stops here.
MaxTime == 2
\* How many access tokens are ever created.
MaxTokens == 2
\* How many backup files are ever written.
MaxBackups == 1
\* How many database sessions run administrator calls at the same time.
MaxSessions == 2

\* config.Settings.ACCESS_TOKEN_EXPIRE_MINUTES: 1440 minutes.
ACCESS_TOKEN_EXPIRE_DAYS == 1
\* auth.cleanup_expired_sessions: timedelta(days=7).
SESSION_MAX_AGE_DAYS == 7

\* The seeded administrator (database.create_default_admin) and one more address.
ADMIN_EMAIL == "admin@webcraft.pro"
Emails == { ADMIN_EMAIL, "user@example.com" }

\* The attributes class Settings defines, among those auth.py reads.
SettingsAttributes ==
  { "SECRET_KEY", "ALGORITHM", "ACCESS_TOKEN_EXPIRE_MINUTES", "DEBUG",
    "COOKIE_SECURE", "COOKIE_HTTPONLY", "COOKIE_SAMESITE", "COOKIE_DOMAIN",
    "COOKIE_MAX_AGE" }

\* jose writes the header {"alg":"HS256","typ":"JWT"} first, 36 characters in
\* base64: "eyJhbGciOiJIUzI1NiIsInR5cCI6IkpXVCJ9".  token[:32] lies within it.
JwtHead32 == "eyJhbGciOiJIUzI1NiIsInR5cCI6IkpX"

NoToken == [kind |-> "none"]
GarbageToken == [kind |-> "garbage"]
NoPayload == [kind |-> "none"]

\* What a request carries: where the token travels, and the token.
Carriers == { "none", "cookie", "auth_token", "access_token", "header" }

\* create_access_token(data={"sub": email}): exp, iat and type are added and
\* the claims are encoded; the data of the callers holds no jti.
create_access_token(email, now) ==
  [kind |-> "jwt", head |-> JwtHead32, sub |-> email, iat |-> now,
   exp |-> now + ACCESS_TOKEN_EXPIRE_DAYS, type |-> "access"]

\* verify_token: the payload, or NoPayload for None.
verify_token(token, now) ==
  IF token.kind # "jwt" THEN NoPayload
  ELSE IF token.type \notin { "access", "refresh" } THEN NoPayload
  ELSE IF token.exp < now THEN NoPayload
  ELSE token

\* payload.get("jti") or token[:32]
SessionKey(token) == token.head

\* blacklist_token: the new user_sessions.
blacklist_token(sessions, token, now) ==
  IF verify_token(token, now) = NoPayload THEN sessions
  ELSE [k \in (DOMAIN sessions) \cup { SessionKey(token) } |->
          IF k = SessionKey(token)
            THEN [blacklisted |-> TRUE, timestamp |-> now]
            ELSE sessions[k]]

is_token_blacklisted(sessions, token, now) ==
  IF verify_token(token, now) = NoPayload THEN TRUE
  ELSE IF SessionKey(token) \in DOMAIN sessions
         THEN sessions[SessionKey(token)].blacklisted
         ELSE FALSE

\* cleanup_expired_sessions: entries older than a week are deleted.
cleanup_expired_sessions(sessions, now) ==
  LET keep == { k \in DOMAIN sessions :
                  ~(now - sessions[k].timestamp > SESSION_MAX_AGE_DAYS) }
  IN  [k \in keep |-> sessions[k]]

\* The outcome of a call: a value, or the exception it raised.
Returned(v) == [raised |-> "none", status |-> 200, value |-> v]
Raised(exc, status) == [raised |-> exc, status |-> status, value |-> NoToken]
HTTPException(status) == Raised("HTTPException", status)
AttributeError == Raised("AttributeError", 0)

\* get_token_from_cookie_or_header: reading settings.TOKEN_COOKIE_NAME comes
\* first; then the cookies in their order, then the Authorization header.
get_token_from_cookie_or_header(req, with_credentials) ==
  IF "TOKEN_COOKIE_NAME" \notin SettingsAttributes THEN AttributeError
  ELSE IF req.carrier \in { "cookie", "auth_token", "access_token" }
         THEN Returned(req.token)
  ELSE IF req.carrier = "header" /\ with_credentials THEN Returned(req.token)
  ELSE Returned(NoToken)

get_current_user(req, usrs, sessions, now) ==
  LET got == get_token_from_cookie_or_header(req, TRUE) IN
  IF got.raised # "none" THEN got
  ELSE
    LET token == got.value IN
    IF token = NoToken THEN HTTPException(401)
    ELSE IF is_token_blacklisted(sessions, token, now) THEN HTTPException(401)
    ELSE
      LET payload == verify_token(token, now) IN
      IF payload = NoPayload THEN HTTPException(401)
      ELSE IF payload.type # "access" THEN HTTPException(401)
      ELSE IF ~usrs[payload.sub].registered THEN HTTPException(401)
      ELSE IF ~usrs[payload.sub].is_active THEN HTTPException(403)
      ELSE Returned(payload.sub)

get_current_active_user(req, usrs, sessions, now) ==
  LET current_user == get_current_user(req, usrs, sessions, now) IN
  IF current_user.raised # "none" THEN current_user
  ELSE IF ~usrs[current_user.value].is_active THEN HTTPException(403)
  ELSE current_user

get_current_admin_user(req, usrs, sessions, now) ==
  LET current_user == get_current_active_user(req, usrs, sessions, now) IN
  IF current_user.raised # "none" THEN current_user
  ELSE IF ~usrs[current_user.value].is_admin THEN HTTPException(403)
  ELSE current_user

\* The exception handlers of main.py and the except clause of
\* SecurityMiddleware.dispatch: the response to the outcome of an endpoint.
http_exception_handler(out) == [status |-> out.status, json |-> TRUE]
validation_exception_handler(out) == [status |-> 422, json |-> TRUE]
internal_server_error_handler(out) == [status |-> 500, json |-> TRUE]

Respond(out) ==
  CASE out.raised = "none"                   -> [status |-> 200, json |-> TRUE]
    [] out.raised = "HTTPException"          -> http_exception_handler(out)
    [] out.raised = "RequestValidationError" -> validation_exception_handler(out)
    [] OTHER                                 -> internal_server_error_handler(out)

(***************************************************************************)
(* State                                                                   *)
(***************************************************************************)

VARIABLES
  \* migrations
  database, schema_migrations, migrator, mig_log, mig_ret, mig_clock,
  \* designs
  designs, design_seq, slug_result,
  \* authentication
  users, issued, revoked, user_sessions, clock, DEBUG, backup_files, response,
  \* the database sessions of concurrent administrator calls
  db_sessions,
  \* the middleware stack: the rate limiter
  ENVIRONMENT, rate_limiter, current_time, passed, answer,
  \* the operation of the last step
  last_op

migr_vars == << database, schema_migrations, migrator, mig_log, mig_ret, mig_clock >>

slug_vars == << designs, design_seq, slug_result >>

auth_vars == << users, issued, revoked, user_sessions, clock, DEBUG, backup_files,
                response >>

conc_vars == << db_sessions >>

limit_vars == << ENVIRONMENT, rate_limiter, current_time, passed, answer >>

vars == << migr_vars, slug_vars, auth_vars, conc_vars, limit_vars, last_op >>

NoSlugResult == [status |-> 0, base_slug |-> << >>, slug |-> << >>, id |-> 0]
NoResponse == [status |-> 0, json |-> TRUE, first_raised |-> "none", first_status |-> 0,
               token |-> NoToken, user |-> ""]
NoUser == [registered |-> FALSE, is_active |-> FALSE, is_admin |-> FALSE]
NoSessions == [k \in {} |-> [blacklisted |-> FALSE, timestamp |-> 0]]

\* The database sessions (one per request, database.get_db), and a session
\* in which no call runs.
DbSessions == 1..MaxSessions

NoCall == [pc |-> "idle", op |-> "", target |-> "", status |-> 0]

\* No RateLimitMiddleware object, no request answered yet.
NoLimiter == [calls |-> 0, period |-> 0, clients |-> << >>]
NoAnswer == [status |-> 0, retry_after |-> 0, handled |-> FALSE,
             client_ip |-> "", key |-> "", path |-> ""]

\* The state of each part before its first operation.
MigrStart(schema) ==
  /\ database = schema
  /\ schema_migrations = [v \in Versions |-> NoRec]
  /\ migrator = NoMigrator
  /\ mig_log = << >>
  /\ mig_ret = TRUE
  /\ mig_clock = 0

\* An empty designs table.
SlugStart ==
  /\ designs = {}
  /\ design_seq = 0
  /\ slug_result = NoSlugResult

\* After startup: the administrator is seeded, nobody has logged in.
AuthStart(debug) ==
  /\ users = [e \in Emails |->
                IF e = ADMIN_EMAIL
                  THEN [registered |-> TRUE, is_active |-> TRUE, is_admin |-> TRUE]
                  ELSE NoUser]
  /\ issued = {}
  /\ revoked = {}
  /\ user_sessions = NoSessions
  /\ clock = 0
  /\ DEBUG = debug
  /\ backup_files = 0
  /\ response = NoResponse

\* No administrator call is running.
ConcStart ==
  db_sessions = [p \in DbSessions |-> NoCall]

\* A development server (the default ENVIRONMENT): no RateLimitMiddleware.
LimitStart ==
  /\ ENVIRONMENT = "development"
  /\ rate_limiter = NoLimiter
  /\ current_time = 0
  /\ passed = << >>
  /\ answer = NoAnswer

\* The migrator finds one of the schemas.
InitMigr ==
  \E schema \in InitSchemas :
    /\ MigrStart(schema) /\ SlugStart /\ AuthStart(FALSE)
    /\ ConcStart /\ LimitStart /\ last_op = "init"

InitSlug ==
  /\ MigrStart({}) /\ SlugStart /\ AuthStart(FALSE)
  /\ ConcStart /\ LimitStart /\ last_op = "init"

\* DEBUG is read from the environment.
InitAuth ==
  \E debug \in BOOLEAN :
    /\ MigrStart({}) /\ SlugStart /\ AuthStart(debug)
    /\ ConcStart /\ LimitStart /\ last_op = "init"

(***************************************************************************)
(* Migrations: the operations                                              *)
(***************************************************************************)

\* DatabaseMigrator.__init__ with _ensure_migration_table.
NewMigrator(dry) ==
  /\ migrator' = [constructed |-> TRUE, dry_run |-> dry]
  /\ database' = database \cup {"schema_migrations"}
  /\ last_op' = "new_migrator"
  /\ UNCHANGED << schema_migrations, mig_log, mig_ret, mig_clock >>
  /\ UNCHANGED << slug_vars, auth_vars, conc_vars, limit_vars >>

RunAllMigrations(target, failing) ==
  /\ migrator.constructed
  /\ mig_clock < MaxRuns
  /\ LET r == run_all_migrations(database, schema_migrations, migrator.dry_run,
                                 target, failing, mig_clock + 1)
     IN  /\ database' = r.db
         /\ schema_migrations' = r.recs
         /\ mig_log' = r.log
         /\ mig_ret' = r.ret
  /\ mig_clock' = mig_clock + 1
  /\ last_op' = "run_all_migrations"
  /\ UNCHANGED migrator
  /\ UNCHANGED << slug_vars, auth_vars, conc_vars, limit_vars >>

RollbackMigration_Implemented(version) ==
  /\ migrator.constructed
  /\ mig_ret' = schema_migrations[version].recorded
  /\ schema_migrations' = [schema_migrations EXCEPT ![version] = NoRec]
  /\ last_op' = "rollback_migration"
  /\ UNCHANGED << database, migrator, mig_log, mig_clock >>
  /\ UNCHANGED << slug_vars, auth_vars, conc_vars, limit_vars >>

RollbackMigration(version) ==
  /\ migrator.constructed
  /\ mig_ret' = FALSE
  /\ last_op' = "rollback_migration"
  /\ UNCHANGED << database, schema_migrations, migrator, mig_log, mig_clock >>
  /\ UNCHANGED << slug_vars, auth_vars, conc_vars, limit_vars >>

\* database.run_migrations: every statement is tried, errors are logged.
DbRunMigrations(failing) ==
  /\ database' = DbRunStatements(1, database, failing)
  /\ mig_ret' = TRUE
  /\ last_op' = "db_run_migrations"
  /\ UNCHANGED << schema_migrations, migrator, mig_log, mig_clock >>
  /\ UNCHANGED << slug_vars, auth_vars, conc_vars, limit_vars >>

NextMigr ==
  \/ \E dry \in BOOLEAN : NewMigrator(dry)
  \/ \E target \in Targets, failing \in FailSets : RunAllMigrations(target, failing)
  \/ \E version \in Versions : RollbackMigration(version)
  \/ \E failing \in FailSets : DbRunMigrations(failing)

SpecMigr == InitMigr /\ [][NextMigr]_vars

(***************************************************************************)
(* Designs: the handlers of routes.py, called by an administrator          *)
(***************************************************************************)

\* create_design.  The body is validated as schemas.DesignCreate first.
\* slug_result keeps the answer and base_slug, the local of generate_slug.
CreateDesign(title, category_id) ==
  /\ design_seq < MaxDesigns
  /\ last_op' = "create_design"
  /\ IF Len(title) < TitleMinLen
       THEN /\ slug_result' = [NoSlugResult EXCEPT !.status = 422]
            /\ UNCHANGED << designs, design_seq >>
       ELSE IF category_id \notin DesignCategories
         THEN /\ slug_result' = [NoSlugResult EXCEPT !.status = 400]
              /\ UNCHANGED << designs, design_seq >>
         ELSE LET slug == generate_slug(title, designs, 0)
                  id   == design_seq + 1
              IN  /\ designs' = designs \cup { [id |-> id, slug |-> slug] }
                  /\ design_seq' = id
                  /\ slug_result' = [status |-> 200, base_slug |-> slugify(title),
                                      slug |-> slug, id |-> id]
  /\ UNCHANGED << migr_vars, auth_vars, conc_vars, limit_vars >>

\* delete_design.
DeleteDesign(design_id) ==
  /\ last_op' = "delete_design"
  /\ IF ~\E d \in designs : d.id = design_id
       THEN /\ slug_result' = [NoSlugResult EXCEPT !.status = 404]
            /\ UNCHANGED designs
       ELSE /\ designs' = { d \in designs : d.id # design_id }
            /\ slug_result' = [NoSlugResult EXCEPT !.status = 200, !.id = design_id]
  /\ UNCHANGED << design_seq, migr_vars, auth_vars, conc_vars, limit_vars >>

NextSlug ==
  \/ \E title \in Titles, category_id \in CategoryIds : CreateDesign(title, category_id)
  \/ \E design_id \in 1..MaxDesigns : DeleteDesign(design_id)

SpecSlug == InitSlug /\ [][NextSlug]_vars

(***************************************************************************)
(* Authentication: the endpoints                                           *)
(***************************************************************************)

Requests == { [carrier |-> c, token |-> t] : c \in Carriers \ { "none" },
                                              t \in issued \cup { GarbageToken } }
              \cup { [carrier |-> "none", token |-> NoToken] }

ResponseOf(out, first) ==
  [status       |-> Respond(out).status,
   json         |-> Respond(out).json,
   first_raised |-> first.raised,
   first_status |-> first.status,
   token        |-> NoToken,
   user         |-> ""]

\* set_auth_cookie and clear_auth_cookie read settings.TOKEN_COOKIE_NAME first.
set_auth_cookie == 
  IF "TOKEN_COOKIE_NAME" \notin SettingsAttributes THEN AttributeError ELSE Returned(NoToken)

clear_auth_cookie ==
  IF "TOKEN_COOKIE_NAME" \notin SettingsAttributes THEN AttributeError ELSE Returned(NoToken)

authenticate_user(usrs, email, password_ok) ==
  IF usrs[email].registered /\ password_ok THEN email ELSE ""

\* A login that does not look at is_active.
login_NoActiveCheck(usrs, email, password_ok, now) ==
  LET user == authenticate_user(usrs, email, password_ok) IN
  IF user = "" THEN [out |-> HTTPException(401), created |-> {}]
  ELSE
    LET access_token == create_access_token(user, now) IN
    IF set_auth_cookie.raised # "none"
      THEN [out |-> set_auth_cookie, created |-> { access_token }]
      ELSE [out |-> Returned(access_token), created |-> { access_token }]

\* login: the outcome and the tokens it created.
login(usrs, email, password_ok, now) ==
  LET user == authenticate_user(usrs, email, password_ok) IN
  IF user = "" THEN [out |-> HTTPException(401), created |-> {}]
  ELSE IF ~usrs[user].is_active THEN [out |-> HTTPException(403), created |-> {}]
  ELSE
    LET access_token == create_access_token(user, now) IN
    IF set_auth_cookie.raised # "none"
      THEN [out |-> set_auth_cookie, created |-> { access_token }]
      ELSE [out |-> Returned(access_token), created |-> { access_token }]

\* POST /auth/login
Login(email, password_ok, valid_body) ==
  /\ Cardinality(issued) < MaxTokens
  /\ last_op' = "login"
  /\ IF ~valid_body
       THEN /\ response' = ResponseOf(Raised("RequestValidationError", 422),
                                      Raised("RequestValidationError", 422))
            /\ UNCHANGED issued
       ELSE LET r == login(users, email, password_ok, clock) IN
            /\ issued' = issued \cup r.created
            /\ response' = [ResponseOf(r.out, r.out) EXCEPT
                              !.token = r.out.value,
                              !.user = IF r.out.raised = "none" THEN email ELSE ""]
  /\ UNCHANGED << users, revoked, user_sessions, clock, DEBUG, backup_files >>
  /\ UNCHANGED << migr_vars, slug_vars, conc_vars, limit_vars >>

\* POST /auth/register: everything runs inside try ... except Exception,
\* which answers HTTPException(500).
Register(email, valid_body) ==
  /\ Cardinality(issued) < MaxTokens
  /\ last_op' = "register"
  /\ IF ~valid_body
       THEN /\ response' = ResponseOf(Raised("RequestValidationError", 422),
                                      Raised("RequestValidationError", 422))
            /\ UNCHANGED << users, issued >>
       ELSE IF users[email].registered
         THEN /\ response' = ResponseOf(HTTPException(500), HTTPException(400))
              /\ UNCHANGED << users, issued >>
         ELSE LET access_token == create_access_token(email, clock) IN
              /\ users' = [users EXCEPT ![email] =
                             [registered |-> TRUE, is_active |-> TRUE, is_admin |-> FALSE]]
              /\ issued' = issued \cup { access_token }
              /\ response' =
                   IF set_auth_cookie.raised # "none"
                     THEN ResponseOf(HTTPException(500), set_auth_cookie)
                     ELSE [ResponseOf(Returned(access_token), Returned(access_token))
                             EXCEPT !.token = access_token, !.user = email]
  /\ UNCHANGED << revoked, user_sessions, clock, DEBUG, backup_files >>
  /\ UNCHANGED << migr_vars, slug_vars, conc_vars, limit_vars >>

\* POST /auth/logout: the token is looked up with credentials = None; the
\* except clause clears the cookies again.
Logout(req) ==
  /\ last_op' = "logout"
  /\ LET got == get_token_from_cookie_or_header(req, FALSE) IN
     IF got.raised # "none"
       THEN /\ response' = ResponseOf(clear_auth_cookie, got)
            /\ UNCHANGED << user_sessions, revoked >>
       ELSE /\ user_sessions' =
                 IF got.value = NoToken THEN user_sessions
                 ELSE blacklist_token(user_sessions, got.value, clock)
            /\ revoked' =
                 IF got.value # NoToken /\ verify_token(got.value, clock) # NoPayload
                   THEN revoked \cup { got.value } ELSE revoked
            /\ response' = ResponseOf(clear_auth_cookie, clear_auth_cookie)
  /\ UNCHANGED << users, issued, clock, DEBUG, backup_files >>
  /\ UNCHANGED << migr_vars, slug_vars, conc_vars, limit_vars >>

\* GET /auth/me
GetProfile(req) ==
  /\ last_op' = "get_profile"
  /\ LET cu == get_current_active_user(req, users, user_sessions, clock) IN
     response' = [ResponseOf(cu, cu) EXCEPT
                    !.user = IF cu.raised = "none" THEN cu.value ELSE ""]
  /\ UNCHANGED << users, issued, revoked, user_sessions, clock, DEBUG, backup_files >>
  /\ UNCHANGED << migr_vars, slug_vars, conc_vars, limit_vars >>

\* The endpoints that depend on get_current_admin_user.
AdminOps == { "flush_admin_cache", "get_quote_applications" }

\* POST /admin/flush-cache, GET /applications/quote
AdminRequest(op, req) ==
  /\ last_op' = op
  /\ LET cu == get_current_admin_user(req, users, user_sessions, clock) IN
     /\ response' = [ResponseOf(cu, cu) EXCEPT
                       !.user = IF cu.raised = "none" THEN cu.value ELSE ""]
     /\ user_sessions' =
          IF cu.raised = "none" /\ op = "flush_admin_cache" THEN NoSessions
          ELSE user_sessions
  /\ UNCHANGED << users, issued, revoked, clock, DEBUG, backup_files >>
  /\ UNCHANGED << migr_vars, slug_vars, conc_vars, limit_vars >>

\* GET /api/v1/backup: no dependency looks at the request.
BackupRequest(req, dump_ok) ==
  /\ DEBUG => backup_files < MaxBackups
  /\ last_op' = "create_backup"
  /\ IF ~DEBUG
       THEN /\ response' = ResponseOf(HTTPException(404), HTTPException(404))
            /\ UNCHANGED backup_files
       ELSE /\ backup_files' = backup_files + 1
            /\ response' =
                 IF dump_ok THEN ResponseOf(Returned(NoToken), Returned(NoToken))
                 ELSE ResponseOf(HTTPException(500), HTTPException(500))
  /\ UNCHANGED << users, issued, revoked, user_sessions, clock, DEBUG >>
  /\ UNCHANGED << migr_vars, slug_vars, conc_vars, limit_vars >>

\* GET /designs/{design_id}
GetDesign(design_id) ==
  /\ last_op' = "get_design"
  /\ response' =
       IF \E d \in designs : d.id = design_id
         THEN ResponseOf(Returned(NoToken), Returned(NoToken))
         ELSE ResponseOf(HTTPException(404), HTTPException(404))
  /\ UNCHANGED << users, issued, revoked, user_sessions, clock, DEBUG, backup_files >>
  /\ UNCHANGED << migr_vars, slug_vars, conc_vars, limit_vars >>

(***************************************************************************)
(* Authentication: calls of the functions of auth.py, and of a handler     *)
(* with its dependencies resolved                                          *)
(***************************************************************************)

\* create_access_token(data={"sub": email})
CreateAccessToken(email) ==
  /\ Cardinality(issued) < MaxTokens
  /\ last_op' = "create_access_token"
  /\ issued' = issued \cup { create_access_token(email, clock) }
  /\ response' = [NoResponse EXCEPT !.token = create_access_token(email, clock)]
  /\ UNCHANGED << users, revoked, user_sessions, clock, DEBUG, backup_files >>
  /\ UNCHANGED << migr_vars, slug_vars, conc_vars, limit_vars >>

\* blacklist_token(token)
BlacklistToken(token) ==
  /\ last_op' = "blacklist_token"
  /\ user_sessions' = blacklist_token(user_sessions, token, clock)
  /\ revoked' = IF verify_token(token, clock) # NoPayload
                  THEN revoked \cup { token } ELSE revoked
  /\ response' = NoResponse
  /\ UNCHANGED << users, issued, clock, DEBUG, backup_files >>
  /\ UNCHANGED << migr_vars, slug_vars, conc_vars, limit_vars >>

\* flush_admin_cache(current_user), current_user an active administrator.
FlushAdminCache(current_user) ==
  /\ users[current_user].registered
  /\ users[current_user].is_active
  /\ users[current_user].is_admin
  /\ last_op' = "call_flush_admin_cache"
  /\ user_sessions' = NoSessions
  /\ response' = NoResponse
  /\ UNCHANGED << users, issued, revoked, clock, DEBUG, backup_files >>
  /\ UNCHANGED << migr_vars, slug_vars, conc_vars, limit_vars >>

\* cleanup_expired_sessions()
CleanupExpiredSessions ==
  /\ last_op' = "cleanup_expired_sessions"
  /\ user_sessions' = cleanup_expired_sessions(user_sessions, clock)
  /\ response' = NoResponse
  /\ UNCHANGED << users, issued, revoked, clock, DEBUG, backup_files >>
  /\ UNCHANGED << migr_vars, slug_vars, conc_vars, limit_vars >>

\* A deactivate_user that does not count the other administrators.
deactivate_user_NoAdminCheck(usrs, email) ==
  IF ~usrs[email].registered THEN [out |-> HTTPException(404), users |-> usrs]
  ELSE [out |-> Returned(NoToken),
        users |-> [usrs EXCEPT ![email].is_active = FALSE]]

\* deactivate_user: the outcome and the new users.
deactivate_user(usrs, email) ==
  IF ~usrs[email].registered THEN [out |-> HTTPException(404), users |-> usrs]
  ELSE IF /\ usrs[email].is_admin
          /\ ~\E o \in DOMAIN usrs :
                /\ o # email
                /\ usrs[o].registered /\ usrs[o].is_admin /\ usrs[o].is_active
    THEN [out |-> HTTPException(400), users |-> usrs]
  ELSE [out |-> Returned(NoToken),
        users |-> [usrs EXCEPT ![email].is_active = FALSE]]

DeactivateUser(email) ==
  /\ last_op' = "deactivate_user"
  /\ users' = deactivate_user(users, email).users
  /\ response' = [NoResponse EXCEPT
                    !.first_raised = deactivate_user(users, email).out.raised,
                    !.first_status = deactivate_user(users, email).out.status]
  /\ UNCHANGED << issued, revoked, user_sessions, clock, DEBUG, backup_files >>
  /\ UNCHANGED << migr_vars, slug_vars, conc_vars, limit_vars >>

\* A day passes.
Tick ==
  /\ clock < MaxTime
  /\ clock' = clock + 1
  /\ last_op' = "tick"
  /\ response' = NoResponse
  /\ UNCHANGED << users, issued, revoked, user_sessions, DEBUG, backup_files >>
  /\ UNCHANGED << migr_vars, slug_vars, conc_vars, limit_vars >>

NextAuth ==
  \/ \E req \in Requests, dump_ok \in BOOLEAN : BackupRequest(req, dump_ok)
  \/ \E email \in Emails, valid_body \in BOOLEAN : Register(email, valid_body)
  \/ \E email \in Emails, password_ok \in BOOLEAN, valid_body \in BOOLEAN :
        Login(email, password_ok, valid_body)
  \/ \E req \in Requests : Logout(req)
  \/ \E req \in Requests : GetProfile(req)
  \/ \E op \in AdminOps, req \in Requests : AdminRequest(op, req)
  \/ \E design_id \in 1..MaxDesigns : GetDesign(design_id)
  \/ \E email \in Emails : CreateAccessToken(email)
  \/ \E token \in issued : BlacklistToken(token)
  \/ \E current_user \in Emails : FlushAdminCache(current_user)
  \/ CleanupExpiredSessions
  \/ \E email \in Emails : DeactivateUser(email)
  \/ Tick

SpecAuth == InitAuth /\ [][NextAuth]_vars

(***************************************************************************)
(* Administrators: deactivate_user, make_admin and remove_admin of auth.py, *)
(* each call running alone from its query to its commit                    *)
(***************************************************************************)

\* The rows of the users table: the two addresses above and one more.
Staff == Emails \cup { "editor@example.com" }

UserRows ==
  { NoUser } \cup { [registered |-> TRUE, is_active |-> a, is_admin |-> b] :
                      a \in BOOLEAN, b \in BOOLEAN }

\* The query of deactivate_user and remove_admin: is_admin == True,
\* is_active == True, id != user_id.
OtherActiveAdmins(usrs, email) ==
  { o \in DOMAIN usrs :
      o # email /\ usrs[o].registered /\ usrs[o].is_admin /\ usrs[o].is_active }

ActiveAdmins(usrs) ==
  { o \in DOMAIN usrs : usrs[o].registered /\ usrs[o].is_admin /\ usrs[o].is_active }

\* make_admin: the outcome and the new users.
make_admin(usrs, email) ==
  IF ~usrs[email].registered THEN [out |-> HTTPException(404), users |-> usrs]
  ELSE [out |-> Returned(NoToken),
        users |-> [usrs EXCEPT ![email].is_admin = TRUE]]

\* remove_admin: the outcome and the new users.
remove_admin(usrs, email) ==
  IF ~usrs[email].registered THEN [out |-> HTTPException(404), users |-> usrs]
  ELSE IF OtherActiveAdmins(usrs, email) = {}
    THEN [out |-> HTTPException(400), users |-> usrs]
  ELSE [out |-> Returned(NoToken),
        users |-> [usrs EXCEPT ![email].is_admin = FALSE]]

MakeAdmin(email) ==
  /\ last_op' = "make_admin"
  /\ users' = make_admin(users, email).users
  /\ response' = [NoResponse EXCEPT
                    !.first_raised = make_admin(users, email).out.raised,
                    !.first_status = make_admin(users, email).out.status]
  /\ UNCHANGED << issued, revoked, user_sessions, clock, DEBUG, backup_files >>
  /\ UNCHANGED << migr_vars, slug_vars, conc_vars, limit_vars >>

RemoveAdmin(email) ==
  /\ last_op' = "remove_admin"
  /\ users' = remove_admin(users, email).users
  /\ response' = [NoResponse EXCEPT
                    !.first_raised = remove_admin(users, email).out.raised,
                    !.first_status = remove_admin(users, email).out.status]
  /\ UNCHANGED << issued, revoked, user_sessions, clock, DEBUG, backup_files >>
  /\ UNCHANGED << migr_vars, slug_vars, conc_vars, limit_vars >>

\* Any users table with the seeded administrator's row and at least one
\* active administrator.
InitAdmin ==
  /\ \E table \in [Staff -> UserRows] :
       /\ table[ADMIN_EMAIL].registered
       /\ ActiveAdmins(table) # {}
       /\ users = table
  /\ issued = {}
  /\ revoked = {}
  /\ user_sessions = NoSessions
  /\ clock = 0
  /\ DEBUG = FALSE
  /\ backup_files = 0
  /\ response = NoResponse
  /\ MigrStart({})
  /\ SlugStart
  /\ ConcStart
  /\ LimitStart
  /\ last_op = "init"

NextAdmin ==
  \/ \E email \in Staff : DeactivateUser(email)
  \/ \E email \in Staff : MakeAdmin(email)
  \/ \E email \in Staff : RemoveAdmin(email)

SpecAdmin == InitAdmin /\ [][NextAdmin]_vars

(***************************************************************************)
(* Administrators: deactivate_user and remove_admin called in separate     *)
(* database sessions.  A call reads the user and counts the other active   *)
(* administrators (plain SELECTs, no lock), and later writes its one row   *)
(* and commits; the other sessions run in between.                         *)
(***************************************************************************)

ConcurrentOps == { "deactivate_user", "remove_admin" }

\* The queries and checks of the call, on the committed rows the session reads.
CallChecks(usrs, op, email) ==
  IF op = "deactivate_user" THEN deactivate_user(usrs, email).out
  ELSE remove_admin(usrs, email).out

\* user.is_active = False / user.is_admin = False, then db.commit(): the
\* UPDATE of that column of the one row.
CallWrite(usrs, op, email) ==
  IF op = "deactivate_user" THEN [usrs EXCEPT ![email].is_active = FALSE]
  ELSE [usrs EXCEPT ![email].is_admin = FALSE]

\* Session p runs the call up to its checks.
BeginCall(p, op, email) ==
  /\ db_sessions[p].pc = "idle"
  /\ last_op' = "begin_call"
  /\ db_sessions' = [db_sessions EXCEPT ![p] =
       [pc     |-> IF CallChecks(users, op, email).raised = "none"
                     THEN "commit" ELSE "done",
        op     |-> op,
        target |-> email,
        status |-> CallChecks(users, op, email).status]]
  /\ UNCHANGED << auth_vars, migr_vars, slug_vars, limit_vars >>

\* Session p writes and commits.
CommitCall(p) ==
  /\ db_sessions[p].pc = "commit"
  /\ last_op' = "commit_call"
  /\ users' = CallWrite(users, db_sessions[p].op, db_sessions[p].target)
  /\ db_sessions' = [db_sessions EXCEPT ![p].pc = "done"]
  /\ UNCHANGED << issued, revoked, user_sessions, clock, DEBUG, backup_files, response >>
  /\ UNCHANGED << migr_vars, slug_vars, limit_vars >>

NextAdminConc ==
  \/ \E p \in DbSessions, op \in ConcurrentOps, email \in Staff : BeginCall(p, op, email)
  \/ \E p \in DbSessions : CommitCall(p)

SpecAdminConc == InitAdmin /\ [][NextAdminConc]_vars

(***************************************************************************)
(* The middleware of main.py: SecurityMiddleware and RateLimitMiddleware.  *)
(* Time is time.time() in whole seconds.  main.py passes period = 60 and   *)
(* calls = settings.RATE_LIMIT_PER_MINUTE; here both arguments of          *)
(* RateLimitMiddleware.__init__ are drawn from small ranges.               *)
(***************************************************************************)

\* The largest calls and period given to RateLimitMiddleware.
MaxCalls == 2
MaxPeriod == 2
\* How many seconds pass after the server started.
MaxElapsed == 2
\* How many requests the limiter lets through.
MaxPassed == 3

\* dispatch: if current_time % 60 < 1: self.cleanup_old_entries(current_time)
CleanupEvery == 60

\* The server starts two seconds before a full minute.
BootTime == CleanupEvery - 2

ClientIps == { "10.0.0.1", "10.0.0.2" }

\* exclude_paths of the add_middleware call.
exclude_paths == { "/health", "/metrics", "/favicon.ico", "/docs", "/openapi.json" }

Paths == { "/health", "/api/v1/designs" }

\* Requests: sent directly, or through a proxy that names the client in
\* one of the three headers.
HttpRequests ==
  { [path |-> path, forwarded_for |-> "", real_ip |-> "", cloudflare_ip |-> "",
     client_host |-> ip] : path \in Paths, ip \in ClientIps }
  \cup
  { [path |-> "/api/v1/designs", forwarded_for |-> "10.0.0.1", real_ip |-> "",
     cloudflare_ip |-> "", client_host |-> "10.0.0.9"],
    [path |-> "/api/v1/designs", forwarded_for |-> "", real_ip |-> "10.0.0.2",
     cloudflare_ip |-> "", client_host |-> "10.0.0.9"],
    [path |-> "/api/v1/designs", forwarded_for |-> "", real_ip |-> "",
     cloudflare_ip |-> "10.0.0.2", client_host |-> "10.0.0.9"] }

\* SecurityMiddleware.get_client_ip
get_client_ip(request) ==
  IF request.forwarded_for # "" THEN request.forwarded_for
  ELSE IF request.real_ip # "" THEN request.real_ip
  ELSE IF request.cloudflare_ip # "" THEN request.cloudflare_ip
  ELSE IF request.client_host # "" THEN request.client_host
  ELSE "unknown"

\* app.add_middleware puts the new middleware in front of the ones added
\* before: the middleware added last is the first to see a request.
add_middleware(stack, middleware) == << middleware >> \o stack

\* The add_middleware calls of main.py, in their order.
MiddlewareStack(environment) ==
  IF environment = "production"
    THEN add_middleware(add_middleware(<< >>, "SecurityMiddleware"), "RateLimitMiddleware")
    ELSE add_middleware(<< >>, "SecurityMiddleware")

\* [req_time for req_time in requests if current_time - req_time < span]
RecentRequests(requests, t, span) ==
  SelectSeq(requests, LAMBDA req_time : t - req_time < span)

\* cleanup_old_entries: the new self.clients.
cleanup_old_entries(clients, period, t) ==
  LET keep == { ip \in DOMAIN clients :
                  RecentRequests(clients[ip], t, period * 2) # << >> }
  IN  [ip \in keep |-> RecentRequests(clients[ip], t, period * 2)]

\* A dispatch of RateLimitMiddleware that compares with > instead of >=.
rate_limit_dispatch_OffByOne(limiter, path, client_ip, t) ==
  IF path \in exclude_paths
    THEN [limiter |-> limiter, limited |-> FALSE, key |-> ""]
  ELSE
    LET clients == IF t % CleanupEvery < 1
                     THEN cleanup_old_entries(limiter.clients, limiter.period, t)
                     ELSE limiter.clients
        recent_requests == RecentRequests(clients[client_ip], t, limiter.period)
    IN  IF client_ip \in DOMAIN clients
          THEN IF Len(recent_requests) > limiter.calls
                 THEN [limiter |-> [limiter EXCEPT !.clients = clients],
                       limited |-> TRUE, key |-> client_ip]
                 ELSE [limiter |-> [limiter EXCEPT !.clients =
                                      [ip \in DOMAIN clients |->
                                         IF ip = client_ip
                                           THEN Append(recent_requests, t)
                                           ELSE clients[ip]]],
                       limited |-> FALSE, key |-> client_ip]
          ELSE [limiter |-> [limiter EXCEPT !.clients =
                               [ip \in DOMAIN clients \cup { client_ip } |->
                                  IF ip = client_ip THEN << t >> ELSE clients[ip]]],
                limited |-> FALSE, key |-> client_ip]

\* RateLimitMiddleware.dispatch up to its return: the new limiter, whether
\* the request is answered 429, and the key of self.clients it was counted
\* under.  client_ip is getattr(request.state, 'client_ip', 'unknown').
rate_limit_dispatch(limiter, path, client_ip, t) ==
  IF path \in exclude_paths
    THEN [limiter |-> limiter, limited |-> FALSE, key |-> ""]
  ELSE
    LET clients == IF t % CleanupEvery < 1
                     THEN cleanup_old_entries(limiter.clients, limiter.period, t)
                     ELSE limiter.clients
        recent_requests == RecentRequests(clients[client_ip], t, limiter.period)
    IN  IF client_ip \in DOMAIN clients
          THEN IF Len(recent_requests) >= limiter.calls
                 THEN [limiter |-> [limiter EXCEPT !.clients = clients],
                       limited |-> TRUE, key |-> client_ip]
                 ELSE [limiter |-> [limiter EXCEPT !.clients =
                                      [ip \in DOMAIN clients |->
                                         IF ip = client_ip
                                           THEN Append(recent_requests, t)
                                           ELSE clients[ip]]],
                       limited |-> FALSE, key |-> client_ip]
          ELSE [limiter |-> [limiter EXCEPT !.clients =
                               [ip \in DOMAIN clients \cup { client_ip } |->
                                  IF ip = client_ip THEN << t >> ELSE clients[ip]]],
                limited |-> FALSE, key |-> client_ip]

\* The request on its way through the stack from middleware i on; state_ip
\* is request.state.client_ip, "" while no middleware has set it.
RECURSIVE call_next(_, _, _, _, _, _)
call_next(stack, i, request, state_ip, limiter, t) ==
  IF i > Len(stack)
    THEN [limiter |-> limiter, status |-> 200, retry_after |-> 0,
          handled |-> TRUE, key |-> ""]
  ELSE IF stack[i] = "SecurityMiddleware"
    THEN call_next(stack, i + 1, request, get_client_ip(request), limiter, t)
  ELSE
    LET r == rate_limit_dispatch(limiter, request.path,
                                 IF state_ip = "" THEN "unknown" ELSE state_ip, t)
    IN  IF r.limited
          THEN [limiter |-> r.limiter, status |-> 429,
                retry_after |-> limiter.period, handled |-> FALSE, key |-> r.key]
          ELSE [call_next(stack, i + 1, request, state_ip, r.limiter, t)
                  EXCEPT !.key = r.key]

\* One request, from the outermost middleware to the answer.  passed is the
\* log of the requests the limiter counted and let through.
HandleRequest(request) ==
  /\ Len(passed) < MaxPassed
  /\ last_op' = "request"
  /\ LET r == call_next(MiddlewareStack(ENVIRONMENT), 1, request, "",
                        rate_limiter, current_time)
     IN  /\ rate_limiter' = r.limiter
         /\ answer' = [status |-> r.status, retry_after |-> r.retry_after,
                       handled |-> r.handled, client_ip |-> get_client_ip(request),
                       key |-> r.key, path |-> request.path]
         /\ passed' = IF r.handled /\ r.key # ""
                         THEN Append(passed, [client_ip |-> get_client_ip(request),
                                              key |-> r.key, time |-> current_time])
                         ELSE passed
  /\ UNCHANGED << ENVIRONMENT, current_time >>
  /\ UNCHANGED << migr_vars, slug_vars, auth_vars, conc_vars >>

\* A second passes.
AdvanceTime ==
  /\ current_time < BootTime + MaxElapsed
  /\ current_time' = current_time + 1
  /\ last_op' = "advance_time"
  /\ UNCHANGED << ENVIRONMENT, rate_limiter, passed, answer >>
  /\ UNCHANGED << migr_vars, slug_vars, auth_vars, conc_vars >>

\* The server starts: ENVIRONMENT decides whether RateLimitMiddleware is
\* added, with its calls and period.
InitLimit ==
  /\ \E environment \in { "production", "development" },
        calls \in 1..MaxCalls, period \in 1..MaxPeriod :
       /\ ENVIRONMENT = environment
       /\ rate_limiter = IF environment = "production"
                           THEN [calls |-> calls, period |-> period, clients |-> << >>]
                           ELSE NoLimiter
  /\ current_time = BootTime
  /\ passed = << >>
  /\ answer = NoAnswer
  /\ MigrStart({})
  /\ SlugStart
  /\ AuthStart(FALSE)
  /\ ConcStart
  /\ last_op = "init"

NextLimit ==
  \/ \E request \in HttpRequests : HandleRequest(request)
  \/ AdvanceTime

SpecLimit == InitLimit /\ [][NextLimit]_vars

(***************************************************************************)
(* Claims about the migration part                                         *)
(***************************************************************************)

AllApplied ==
  \A v \in Versions : schema_migrations[v].recorded /\ schema_migrations[v].success

DbAllApplied ==
  \A i \in 1..Len(DbMigrationStatements) : DbMigrationStatements[i].objs \subseteq database

\* C5: running all migrations again on a database where they have already
\* been applied reports success and changes neither the database nor the
\* recorded migrations (for the migrator and for database.run_migrations).
C5_MigrationsIdempotent ==
  [][ /\ (AllApplied /\ last_op' = "run_all_migrations")
          => (mig_ret' /\ database' = database /\ schema_migrations' = schema_migrations)
      /\ (DbAllApplied /\ last_op' = "db_run_migrations")
          => (mig_ret' /\ database' = database /\ schema_migrations' = schema_migrations)
    ]_vars

\* A second run has happened on a fully migrated database and found nothing pending.
C5_Witness ==
  /\ last_op = "run_all_migrations"
  /\ AllApplied
  /\ ~migrator.dry_run
  /\ mig_clock >= 2
  /\ mig_log = << >>
  /\ mig_ret

\* C6: in every run the migration methods are invoked in ascending version
\* order, a failed one is the last of its run, and a migration is executed
\* (not dry) only when every earlier version is recorded as executed; the
\* executed versions therefore always form a prefix of the list.
C6_LinearSequence ==
  /\ \A i, j \in 1..Len(mig_log) : i < j => mig_log[i].version < mig_log[j].version
  /\ \A i \in 1..Len(mig_log) : ~mig_log[i].ok => i = Len(mig_log)
  /\ \A i \in 1..Len(mig_log) :
        ~mig_log[i].dry =>
          \A u \in Versions : u < mig_log[i].version => u \in mig_log[i].prior
  /\ \A v \in Versions :
        (schema_migrations[v].recorded /\ schema_migrations[v].success) =>
          \A u \in Versions :
            u < v => (schema_migrations[u].recorded /\ schema_migrations[u].success)

\* A real run executed at least one migration and then stopped at a failing one.
C6_Witness ==
  /\ Len(mig_log) >= 2
  /\ ~mig_log[1].dry
  /\ mig_log[1].ok
  /\ ~mig_log[Len(mig_log)].ok

\* C9: rollback_migration returns False for every version and changes
\* neither the database nor any schema_migrations record.
C9_RollbackIsNoOp ==
  [][ last_op' = "rollback_migration"
        => (~mig_ret' /\ database' = database /\ schema_migrations' = schema_migrations)
    ]_vars

\* rollback_migration was called for a migration that is recorded.
C9_Witness ==
  /\ last_op = "rollback_migration"
  /\ \E v \in Versions : schema_migrations[v].recorded

(***************************************************************************)
(* Claims about the designs                                                *)
(***************************************************************************)

SlugHeld(rows, slug) == \E d \in rows : d.slug = slug

ValidCredentials(req) ==
  /\ req.carrier # "none"
  /\ req.token.kind = "jwt"
  /\ verify_token(req.token, clock) # NoPayload
  /\ req.token.type = "access"
  /\ req.token \notin revoked
  /\ users[req.token.sub].registered
  /\ users[req.token.sub].is_active

AuthenticatedAdmin(req) == ValidCredentials(req) /\ users[req.token.sub].is_admin

\* C1: an admin operation (an endpoint behind get_current_admin_user, or the
\* database backup) takes effect only for a request with a valid, non-revoked
\* access token of an active administrator: any other request is answered
\* with an error status and changes no state.  (The claim names the statuses
\* 401 and 403; a run that breaks this breaks the claim all the more.)
C1_AdminOperationsGated ==
  [][ \A req \in Requests :
        ( /\ \/ \E dump_ok \in BOOLEAN : BackupRequest(req, dump_ok)
             \/ \E op \in AdminOps : AdminRequest(op, req)
          /\ ~AuthenticatedAdmin(req) )
        => /\ response'.status >= 400
           /\ UNCHANGED << users, issued, user_sessions, backup_files, designs >>
    ]_vars

\* C2: for a registered user with is_active = false, a login with the correct
\* password is refused with 403, returns no token and creates none; and a
\* request to an authenticated endpoint that presents a token of that user is
\* answered with an error, authenticates nobody and changes nothing.
C2_InactiveCannotAuthenticate ==
  [][ /\ \A email \in Emails :
           ( /\ users[email].registered
             /\ ~users[email].is_active
             /\ Login(email, TRUE, TRUE) )
           => /\ response'.status = 403
              /\ response'.token = NoToken
              /\ response'.user = ""
              /\ issued' = issued
      /\ \A req \in Requests :
           ( /\ req.token.kind = "jwt"
             /\ users[req.token.sub].registered
             /\ ~users[req.token.sub].is_active
             /\ \/ GetProfile(req)
                \/ \E op \in AdminOps : AdminRequest(op, req) )
           => /\ response'.status >= 400
              /\ response'.user = ""
              /\ UNCHANGED << users, issued, user_sessions, backup_files >>
    ]_vars

\* A deactivated user who still holds an unexpired token logged in with the
\* correct password and was refused.
C2_Witness ==
  /\ last_op = "login"
  /\ response.status = 403
  /\ \E t \in issued :
       /\ users[t.sub].registered
       /\ ~users[t.sub].is_active
       /\ verify_token(t, clock) # NoPayload

\* C4: a failing request is answered with a JSON body and the status of its
\* failure class: 422 for a validation error, 404 for not found, 401 or 403
\* for an authentication failure, and 500 only when an exception other than
\* an HTTPException with another status escaped the handler's own checks.
C4_FailureStatusByClass ==
  response.status >= 400 =>
    /\ response.json
    /\ response.first_raised = "RequestValidationError" => response.status = 422
    /\ (response.first_raised = "HTTPException" /\ response.first_status = 404)
         => response.status = 404
    /\ (response.first_raised = "HTTPException" /\ response.first_status \in { 401, 403 })
         => response.status = response.first_status
    /\ response.status = 500 =>
         \/ response.first_raised \notin { "HTTPException", "RequestValidationError" }
         \/ response.first_status = 500

\* C7: a token that blacklist_token has put on the blacklist is reported as
\* blacklisted (so get_current_user answers 401) for as long as it is valid.
C7_BlacklistedStaysRevoked ==
  \A t \in revoked :
    verify_token(t, clock) # NoPayload => is_token_blacklisted(user_sessions, t, clock)

\* C8: a request that carries a valid, non-revoked access token of an active
\* user, in a cookie or in the Authorization header, is authenticated as
\* that user.
C8_CookieAndBearerWork ==
  [][ \A req \in Requests :
        (GetProfile(req) /\ ValidCredentials(req))
        => /\ response'.status = 200
           /\ response'.user = req.token.sub
    ]_vars

\* C10: a valid access token that was never passed to blacklist_token is not
\* reported as blacklisted, whatever other tokens were blacklisted.
C10_OnlyThatTokenRevoked ==
  \A t \in issued :
    (verify_token(t, clock) # NoPayload /\ t \notin revoked)
      => ~is_token_blacklisted(user_sessions, t, clock)

\* C11: a logout made with a valid, non-revoked access token of an active
\* user, carried in a cookie or only in the Authorization header, leaves
\* that token on the blacklist: is_token_blacklisted reports it from then on.
C11_LogoutBlacklistsToken ==
  [][ \A req \in Requests :
        (Logout(req) /\ ValidCredentials(req))
        => is_token_blacklisted(user_sessions', req.token, clock')
    ]_vars

(***************************************************************************)
(* Claims about the administrators                                         *)
(***************************************************************************)

\* The call on email would take away the last active administrator.
RemovesLastAdmin(email) ==
  /\ email \in ActiveAdmins(users)
  /\ OtherActiveAdmins(users, email) = {}

\* C12: through any sequence of deactivate_user, make_admin and remove_admin
\* calls there is always a registered user with is_admin and is_active; and
\* a deactivate_user or remove_admin call on the only active administrator
\* raises HTTPException(400) and leaves the users table as it was.
C12_LastActiveAdminKept ==
  /\ [](ActiveAdmins(users) # {})
  /\ [][ \A email \in Staff :
           ( /\ RemovesLastAdmin(email)
             /\ (DeactivateUser(email) \/ RemoveAdmin(email)) )
           => /\ response'.first_raised = "HTTPException"
              /\ response'.first_status = 400
              /\ users' = users
       ]_vars

\* A call on the only active administrator was rejected; another registered
\* user is not an active administrator.
C12_Witness ==
  /\ last_op \in { "deactivate_user", "remove_admin" }
  /\ response.first_status = 400
  /\ Cardinality(ActiveAdmins(users)) = 1
  /\ \E o \in Staff : users[o].registered /\ ~(users[o].is_admin /\ users[o].is_active)

\* C13: when deactivate_user and remove_admin calls on different users have
\* run in separate database sessions and all of them have completed, there is
\* still an active administrator.
C13_ConcurrentLastAdminKept ==
  ( /\ \A p \in DbSessions : db_sessions[p].pc # "commit"
    /\ \A p, q \in DbSessions :
         (p # q /\ db_sessions[p].pc # "idle" /\ db_sessions[q].pc # "idle")
           => db_sessions[p].target # db_sessions[q].target )
  => ActiveAdmins(users) # {}

(***************************************************************************)
(* Claims about the rate limiter                                           *)
(***************************************************************************)

\* The requests the limiter let through in the window of period seconds
\* that ends at t, selected by a field of the log.
PassedInWindow(field, value, t) ==
  { i \in DOMAIN passed :
      /\ passed[i][field] = value
      /\ t - passed[i].time < rate_limiter.period
      /\ passed[i].time <= t }

\* C14: the limiter counts each client IP on its own: a request is answered
\* 429 only if calls requests of the same client IP (get_client_ip) reached
\* the application within the last period seconds.
C14_RateLimitPerClientIp ==
  [][ \A request \in HttpRequests :
        (HandleRequest(request) /\ answer'.status = 429)
        => Cardinality(PassedInWindow("client_ip", get_client_ip(request), current_time))
             >= rate_limiter.calls
    ]_vars

\* C15: with the limiter installed, in every window of period seconds at
\* most calls requests counted under one client key on limited paths have
\* reached the application; and a request that finds calls such requests in
\* the window ending now is answered 429 with Retry-After: period and reaches
\* no handler.
C15_AtMostCallsPerPeriod ==
  /\ [](ENVIRONMENT = "production" =>
          \A t \in BootTime..current_time : \A i \in DOMAIN passed :
            Cardinality(PassedInWindow("key", passed[i].key, t)) <= rate_limiter.calls)
  /\ [][ \A request \in HttpRequests :
           ( /\ HandleRequest(request)
             /\ ENVIRONMENT = "production"
             /\ request.path \notin exclude_paths
             /\ Cardinality(PassedInWindow("key", answer'.key, current_time))
                  >= rate_limiter.calls )
           => /\ answer'.status = 429
              /\ answer'.retry_after = rate_limiter.period
              /\ ~answer'.handled
              /\ passed' = passed
       ]_vars

\* A request was answered 429 with the window full; a request let through
\* earlier under the same key has left the window.
C15_Witness ==
  /\ ENVIRONMENT = "production"
  /\ answer.status = 429
  /\ Cardinality(PassedInWindow("key", answer.key, current_time)) = rate_limiter.calls
  /\ \E i \in DOMAIN passed :
       /\ passed[i].key = answer.key
       /\ current_time - passed[i].time >= rate_limiter.period

(***************************************************************************)
(* Claims about the migration runs                                         *)
(***************************************************************************)

\* C16: run_all_migrations(target_version = V) invokes no migration method
\* whose version is greater than V, whatever migrations are already recorded
\* as executed.
C16_TargetVersionIsUpperBound ==
  [][ \A target \in Targets \ {NoTarget}, failing \in FailSets :
        RunAllMigrations(target, failing)
        => \A i \in DOMAIN mig_log' : mig_log'[i].version <= target
    ]_vars

\* C17: in dry-run mode nothing is changed: neither constructing
\* DatabaseMigrator(dry_run=True) nor its run_all_migrations changes the
\* database (schema or data) or any schema_migrations record.
C17_DryRunChangesNothing ==
  [][ /\ NewMigrator(TRUE)
        => (database' = database /\ schema_migrations' = schema_migrations)
      /\ \A target \in Targets, failing \in FailSets :
           (migrator.dry_run /\ RunAllMigrations(target, failing))
           => (database' = database /\ schema_migrations' = schema_migrations)
    ]_vars

\* C18: every migration run for real is recorded in schema_migrations; it is
\* recorded with success = TRUE only if none of its statements failed for a
\* reason other than "already exists", and with success = FALSE if one did.
C18_SuccessOnlyWhenAllApplied ==
  \A i \in DOMAIN mig_log :
    ~mig_log[i].dry =>
      /\ schema_migrations[mig_log[i].version].recorded
      /\ schema_migrations[mig_log[i].version].success => mig_log[i].errors = 0
      /\ mig_log[i].errors > 0 => ~schema_migrations[mig_log[i].version].success

====
